---- MODULE Spec2Model ----
(***************************************************************************)
(* Music Forge (src/main.py): the background Worker (a thread draining a   *)
(* FIFO queue of jobs), the batch job _process_files that the foreground   *)
(* submits to it, and the foreground handlers that share state with it.    *)
(*                                                                         *)
(* Families of behaviours specified over one set of variables:             *)
(*   WorkerSpec   - class Worker driven by any client of submit()/stop();  *)
(*   Spec         - the application on a machine without presets.json:    *)
(*                  the handlers of the Tk thread (adding paths, clearing  *)
(*                  the queue, the preset controls, the widgets of the     *)
(*                  profile, the output directory, the start button,       *)
(*                  closing the window), the worker and the batch job.     *)
(*                  The batch job takes one step per statement that reads  *)
(*                  or writes state the Tk thread also touches, _add_paths *)
(*                  one step per path appended; the operations of the user *)
(*                  in one behaviour weigh at most MaxOps (a change of the *)
(*                  settings weighs 2, any other operation 1); the modal   *)
(*                  Confirm Delete dialog of _delete_preset is a state of  *)
(*                  its own, in which the worker and the pending callbacks *)
(*                  run;                                                   *)
(*   ProgressSpec - the progress arithmetic of _process_files applied to   *)
(*                  every (i, total) of a bounded range;                   *)
(*   PresetSpec   - the same application started with every presets.json  *)
(*                  of the model, the ones __init__ fails on included;     *)
(*   FfmpegSpec   - find_ffmpeg over every set of existing candidates;     *)
(*   CommandSpec  - _build_ffmpeg_command over profiles and tag sets;      *)
(*   NameSpec     - the output name of _process_files over naming patterns,*)
(*                  tags and file stems.                                   *)
(* WorkerFairSpec and FairSpec add the scheduling assumptions under which  *)
(* the liveness properties are stated.                                     *)
(***************************************************************************)
EXTENDS Integers, Sequences, FiniteSets, TLC

VARIABLES
    \* ---- class Worker (src/main.py:127-156)
    q,                \* Worker.q: the jobs put and not yet received, oldest first
    stop_flag,        \* Worker._stop: the threading.Event
    unfinished_tasks, \* queue.Queue's count of put() minus task_done()
    wpc,              \* where Worker.run is: "check", "get", "run", "exited"
    job,              \* the job Worker.run holds
    fpc,              \* where the caller of stop() is: "idle", "stop_put",
                      \* then "destroy" (stop() has returned), and "closed"
                      \* once the process has ended
    \* ---- history of the worker, kept for the properties
    submitted,        \* the jobs given to submit(), in call order
    started,          \* the jobs Worker.run began to execute, in order
    finished,         \* the jobs whose execution ended, in order
    errlog,           \* the jobs whose exception Worker.run logged, in order
    stop_calls,       \* how many times stop() was called
    late_starts,      \* the jobs that began to execute after a stop() call
    \* ---- class MusicForgePro: the state both threads touch
    file_queue,       \* self.file_queue: the paths of the items, in order
    profile,          \* output_format, quality_setting, normalize,
                      \* trim_silence, sample_rate, channels (the Tk variables)
    output_directory, \* self.output_directory
    ffmpeg_available, \* self.ffmpeg_available, set once by _check_ffmpeg
    process_btn,      \* state of self.process_btn: "normal" or "disabled"
    after_queue,      \* the completion callbacks given to root.after, oldest first
    \* ---- _process_files: its locals and where it is
    total,            \* total = len(self.file_queue), read once
    idx,              \* items the for loop's iterator has handed out
    bpc,              \* "begin", "iter", "except", "dir", "ext", the field
                      \* _build_ffmpeg_command reads next, "invoke",
                      \* "engine", "done", "log"
    out_path,         \* the item in hand: its input path, the directory and
                      \* extension of its output path, and the values
                      \* _build_ffmpeg_command has read so far
    \* ---- history of the batch run in progress, kept for the properties
    calls,            \* this run's subprocess.run calls, in order
    n_ok,             \* this run's "OK" log lines
    n_err,            \* this run's error log lines
    skipped,          \* this run's items whose try block raised before the call
    progress,         \* this run's _ui_progress arguments, in order
    run_queue,        \* self.file_queue as it was when the run began
    run_profile,      \* the profile as it was when the run began
    run_outdir,       \* the output directory as it was when the run began
    mutated,          \* the foreground changed file_queue during this run
    \* ---- the arithmetic of one progress value (ProgressSpec)
    fn_in,            \* <<i, total>>
    fn_out,           \* the value computed from fn_in, -1 before
    \* ---- class MusicForgePro: the state only the Tk thread touches
    start_report,     \* what the last _start_processing call told the user
    add_pending,      \* the paths the loop of _add_paths has yet to append
    ops,              \* how many operations of the user have changed the
                      \* state so far
    custom_presets,   \* self.custom_presets: name -> preset
    preset_store,     \* the file CUSTOM_PRESETS_FILE (presets.json)
    current_preset,   \* self.current_preset: the name the combobox shows
    preset_values,    \* the names the preset combobox offers (its values)
    delete_name,      \* _delete_preset's local name while its Confirm Delete
                      \* dialog is open, "" when it is not
    preset_event      \* the last preset operation, its report and the state
                      \* it began in, kept for the properties

wvars == <<q, stop_flag, unfinished_tasks, wpc, job, fpc,
           submitted, started, finished, errlog, stop_calls, late_starts>>

avars == <<file_queue, profile, output_directory, ffmpeg_available, process_btn,
           after_queue, total, idx, bpc, out_path, calls, n_ok, n_err,
           skipped, progress, run_queue, run_profile, run_outdir, mutated>>

fvars == <<fn_in, fn_out>>

pvars == <<custom_presets, preset_store, current_preset, preset_values,
           delete_name, preset_event>>

uvars == <<start_report, add_pending, ops, pvars>>

vars == <<wvars, avars, fvars, uvars>>

\* ------------------------------------------------------------------ bounds
MaxJobs == 3    \* jobs a client submits in WorkerSpec
MaxStops == 2    \* calls of stop() in WorkerSpec

\* ------------------------------------------------------------------ jobs
\* queue items: a (func, args, kwargs) tuple, or the None that stop() puts
None == [kind |-> "none", id |-> 0, raises |-> FALSE]

Job(n, r) == [kind |-> "job", id |-> n, raises |-> r]

\* ------------------------------------------------------------------ Worker
\* the Worker that __init__ created and started (line 217); pc is where the
\* Tk thread is
WorkerInitAt(pc) ==
    /\ q = <<>>
    /\ stop_flag = FALSE
    /\ unfinished_tasks = 0
    /\ wpc = "check"
    /\ job = None
    /\ fpc = pc
    /\ submitted = <<>>
    /\ started = <<>>
    /\ finished = <<>>
    /\ errlog = <<>>
    /\ stop_calls = 0
    /\ late_starts = {}

WorkerInit == WorkerInitAt("idle")

\* the histories hold the jobs of the Worker's client; the batch job of the
\* application has its own history (calls, progress)
Record(hist, j) == IF j.kind = "job" THEN Append(hist, j) ELSE hist

\* Worker.submit: self.q.put((func, args, kwargs)) on an unbounded queue
submit(j) ==
    /\ q' = Append(q, j)
    /\ unfinished_tasks' = unfinished_tasks + 1
    /\ submitted' = Record(submitted, j)

\* Worker.stop, first statement: self._stop.set()
StopSet ==
    /\ fpc = "idle"
    /\ stop_calls < MaxStops
    /\ stop_flag' = TRUE
    /\ stop_calls' = stop_calls + 1
    /\ fpc' = "stop_put"
    /\ UNCHANGED <<q, unfinished_tasks, wpc, job, submitted, started, finished,
                   errlog, late_starts>>
    /\ UNCHANGED <<avars, fvars, uvars>>

\* Worker.stop, second statement: self.q.put_nowait(None); the queue has no
\* maxsize, so the put never raises Full
StopPut ==
    /\ fpc = "stop_put"
    /\ q' = Append(q, None)
    /\ unfinished_tasks' = unfinished_tasks + 1
    /\ fpc' = "idle"
    /\ UNCHANGED <<stop_flag, wpc, job, submitted, started, finished, errlog,
                   stop_calls, late_starts>>
    /\ UNCHANGED <<avars, fvars, uvars>>

\* a stop() whose two statements signal nothing
StopLost ==
    /\ fpc = "idle"
    /\ stop_calls < MaxStops
    /\ stop_calls' = stop_calls + 1
    /\ UNCHANGED <<q, stop_flag, unfinished_tasks, wpc, job, fpc, submitted,
                   started, finished, errlog, late_starts>>
    /\ UNCHANGED <<avars, fvars, uvars>>

Stop == StopSet \/ StopPut

\* the process runs: the window has not been closed (main, line 977; the
\* worker is a daemon thread, line 128)
Alive == fpc # "closed"

\* Worker.run: while not self._stop.is_set()
WorkerCheck ==
    /\ Alive
    /\ wpc = "check"
    /\ wpc' = IF stop_flag THEN "exited" ELSE "get"
    /\ UNCHANGED <<q, stop_flag, unfinished_tasks, job, fpc, submitted, started,
                   finished, errlog, stop_calls, late_starts>>
    /\ UNCHANGED <<avars, fvars, uvars>>

\* the job q.get hands out: the oldest one
NewestFirst(queue) == Len(queue)

OldestFirst(queue) == 1

GetIndex(queue) == OldestFirst(queue)

RemoveAt(s, i) == [k \in 1..(Len(s) - 1) |-> IF k < i THEN s[k] ELSE s[k + 1]]

\* Worker.run: job = self.q.get(timeout=0.2) returning an item; None breaks
\* the loop, any other job is unpacked and its call begins
WorkerGet ==
    /\ Alive
    /\ wpc = "get"
    /\ q # <<>>
    /\ LET i == GetIndex(q) IN
        /\ job' = q[i]
        /\ q' = RemoveAt(q, i)
        /\ IF q[i].kind = "none"
             THEN /\ wpc' = "exited"
                  /\ UNCHANGED <<started, late_starts>>
             ELSE /\ wpc' = "run"
                  /\ started' = Record(started, q[i])
                  /\ late_starts' = IF stop_calls > 0
                                      THEN late_starts \cup {q[i]}
                                      ELSE late_starts
    /\ UNCHANGED <<stop_flag, unfinished_tasks, fpc, submitted, finished,
                   errlog, stop_calls>>
    /\ UNCHANGED <<avars, fvars, uvars>>

\* Worker.run: q.get raises queue.Empty after 0.2 s without an item; continue
WorkerTimeout ==
    /\ Alive
    /\ wpc = "get"
    /\ q = <<>>
    /\ wpc' = "check"
    /\ UNCHANGED <<q, stop_flag, unfinished_tasks, job, fpc, submitted, started,
                   finished, errlog, stop_calls, late_starts>>
    /\ UNCHANGED <<avars, fvars, uvars>>

\* where Worker.run is after the except clause of a job that raised
AfterRaiseCrash == "exited"

AfterRaiseLoop == "check"

AfterRaise == AfterRaiseLoop

\* Worker.run: func(*args, **kwargs) returns; finally: self.q.task_done()
WorkerJobReturns ==
    /\ wpc = "run"
    /\ job.kind = "job"
    /\ ~job.raises
    /\ finished' = Append(finished, job)
    /\ unfinished_tasks' = unfinished_tasks - 1
    /\ wpc' = "check"
    /\ UNCHANGED <<q, stop_flag, job, fpc, submitted, started, errlog,
                   stop_calls, late_starts>>
    /\ UNCHANGED <<avars, fvars, uvars>>

\* Worker.run: func raises; except Exception: self.app.log("[error] ...");
\* finally: self.q.task_done()
WorkerJobRaises ==
    /\ wpc = "run"
    /\ job.kind = "job"
    /\ job.raises
    /\ errlog' = Append(errlog, job)
    /\ finished' = Append(finished, job)
    /\ unfinished_tasks' = unfinished_tasks - 1
    /\ wpc' = AfterRaise
    /\ UNCHANGED <<q, stop_flag, job, fpc, submitted, started, stop_calls,
                   late_starts>>
    /\ UNCHANGED <<avars, fvars, uvars>>

\* a client of the Worker calling submit(func) with a job that returns or raises
ClientSubmit ==
    /\ fpc = "idle"
    /\ Len(submitted) < MaxJobs
    /\ \E r \in BOOLEAN : submit(Job(Len(submitted) + 1, r))
    /\ UNCHANGED <<stop_flag, wpc, job, fpc, started, finished, errlog,
                   stop_calls, late_starts>>
    /\ UNCHANGED <<avars, fvars, uvars>>

\* ------------------------------------------------------------------ floats
\* Python computes int(((i-1) / total) * 100) in IEEE-754 binary64: the true
\* division and the product are each rounded to 53 significant bits, ties to
\* even, and int() truncates. A double is kept as [m, e]: m its 53
\* significand bits, most significant first, e the exponent of the last
\* bit; zero is [m |-> <<>>, e |-> 0].
Front(s) == SubSeq(s, 1, Len(s) - 1)

Last(s) == s[Len(s)]

RECURSIVE Bits(_)
Bits(n) == IF n = 0 THEN <<>> ELSE Append(Bits(n \div 2), n % 2)

RECURSIVE BitsValue(_)
BitsValue(b) == IF b = <<>> THEN 0 ELSE 2 * BitsValue(Front(b)) + Last(b)

\* the bits of b + 1
Inc(b) ==
    LET zeros == {k \in 1..Len(b) : b[k] = 0} IN
    IF zeros = {} THEN <<1>> \o [k \in 1..Len(b) |-> 0]
    ELSE LET p == CHOOSE k \in zeros : \A z \in zeros : z <= k IN
         [k \in 1..Len(b) |-> IF k < p THEN b[k] ELSE IF k = p THEN 1 ELSE 0]

\* round to nearest, ties to even: m53 the kept bits, rb the first dropped
\* bit, sticky whether any later dropped bit is set, e the exponent of the
\* last kept bit
RoundNearestEven(m53, rb, sticky, e) ==
    IF rb = 1 /\ (sticky \/ Last(m53) = 1)
      THEN LET up == Inc(m53) IN
           IF Len(up) > Len(m53) THEN [m |-> Front(up), e |-> e + 1]
                                 ELSE [m |-> up, e |-> e]
      ELSE [m |-> m53, e |-> e]

\* 2^j mod n, by squaring
RECURSIVE PowMod2(_, _)
PowMod2(j, n) ==
    IF j = 0 THEN 1 % n
    ELSE LET h == PowMod2(j \div 2, n)
             sq == (h * h) % n
         IN IF j % 2 = 0 THEN sq ELSE (2 * sq) % n

\* the remainder of the long division r / n after j binary places
RemAfter(r, n, j) == (r * PowMod2(j, n)) % n

\* the j-th binary place of r / n, 0 <= r < n
FracBit(r, n, j) == (2 * RemAfter(r, n, j - 1)) \div n

\* k / n of two ints, 0 <= k, 0 < n: the correctly rounded double. The
\* quotient's bits are those of k \div n followed by the binary places of
\* (k % n) / n; 54 bits from the leading 1 on are taken, 53 kept.
TrueDiv(k, n) ==
    IF k = 0 THEN [m |-> <<>>, e |-> 0]
    ELSE LET int == Bits(k \div n)
             r == k % n
             places == 54 + Len(Bits(n))
             frac == [j \in 1..places |-> FracBit(r, n, j)]
             lead == IF int # <<>> THEN 0
                     ELSE (CHOOSE j \in 1..places :
                              frac[j] = 1 /\ \A z \in 1..(j - 1) : frac[z] = 0) - 1
             used == 54 - Len(int) + lead
             sig == int \o SubSeq(frac, lead + 1, used)
         IN RoundNearestEven(SubSeq(sig, 1, 53), sig[54],
                             RemAfter(r, n, used) # 0, 1 - used)

\* the bits of b times the small number c, 20 bits of b at a time
RECURSIVE MulSmall(_, _, _)
MulSmall(b, c, carry) ==
    IF b = <<>> THEN Bits(carry)
    ELSE LET w == IF Len(b) < 20 THEN Len(b) ELSE 20
             low == SubSeq(b, Len(b) - w + 1, Len(b))
             s == BitsValue(low) * c + carry
             out == Bits(s % (2 ^ w))
         IN MulSmall(SubSeq(b, 1, Len(b) - w), c, s \div (2 ^ w))
              \o [k \in 1..(w - Len(out)) |-> 0] \o out

\* x * c of a double and a small int: the exact product, rounded
FloatMul(x, c) ==
    IF x.m = <<>> THEN x
    ELSE LET pr == MulSmall(x.m, c, 0)
             drop == Len(pr) - 53
         IN IF drop <= 0 THEN [m |-> pr, e |-> x.e]
            ELSE RoundNearestEven(SubSeq(pr, 1, 53), pr[54],
                                  \E k \in 55..Len(pr) : pr[k] = 1,
                                  x.e + drop)

\* int(x) of a double x >= 0: truncation
FloatToInt(x) ==
    IF x.m = <<>> THEN 0
    ELSE IF x.e >= 0 THEN BitsValue(x.m \o [k \in 1..x.e |-> 0])
    ELSE IF Len(x.m) + x.e <= 0 THEN 0
    ELSE BitsValue(SubSeq(x.m, 1, Len(x.m) + x.e))

\* the percentage by integer arithmetic
PctExact(i, n) == ((i - 1) * 100) \div n

\* _process_files: pct = int(((i-1) / total) * 100), total # 0
Pct(i, n) == FloatToInt(FloatMul(TrueDiv(i - 1, n), 100))

\* ------------------------------------------------------------------ the app
MaxQueue == 3    \* items file_queue holds at most
MaxOps == 4    \* weight of the operations of the user in one behaviour

Paths == {"a.wav", "b.wav"}

Dirs == {"", "out"}

\* self.default_presets
default_presets ==
    [n \in {"High MP3", "Lossless", "Podcast", "Voice Note"} |->
       CASE n = "High MP3" ->
              [format |-> "mp3", quality |-> "high", normalize |-> FALSE,
               trim_silence |-> FALSE, samplerate |-> 44100, channels |-> 2]
         [] n = "Lossless" ->
              [format |-> "flac", quality |-> "lossless", normalize |-> FALSE,
               trim_silence |-> FALSE, samplerate |-> 48000, channels |-> 2]
         [] n = "Podcast" ->
              [format |-> "m4a", quality |-> "medium", normalize |-> TRUE,
               trim_silence |-> TRUE, samplerate |-> 44100, channels |-> 1]
         [] n = "Voice Note" ->
              [format |-> "ogg", quality |-> "medium", normalize |-> TRUE,
               trim_silence |-> TRUE, samplerate |-> 32000, channels |-> 1]]

\* the job self.worker.submit(self._process_files) puts
BatchJob == [kind |-> "batch", id |-> 0, raises |-> FALSE]

\* no value read yet
NoProfile ==
    [format |-> "", quality |-> "", normalize |-> FALSE,
     trim_silence |-> FALSE, samplerate |-> 0, channels |-> 0]

NoPath == [input |-> "", dir |-> "", ext |-> "", profile |-> NoProfile]

\* MusicForgePro.__init__: the state when the main loop starts. The queue
\* is empty, the "High MP3" preset applied (line 223), the output directory
\* the default one (line 184); _check_ffmpeg finds the engine or does not.
AppInit ==
    /\ file_queue = <<>>
    /\ profile = default_presets["High MP3"]
    /\ output_directory = "out"
    /\ ffmpeg_available \in BOOLEAN
    /\ process_btn = "normal"
    /\ after_queue = <<>>
    /\ total = 0
    /\ idx = 0
    /\ bpc = "begin"
    /\ out_path = NoPath
    /\ calls = <<>>
    /\ n_ok = 0
    /\ n_err = 0
    /\ skipped = <<>>
    /\ progress = <<>>
    /\ run_queue = <<>>
    /\ run_profile = default_presets["High MP3"]
    /\ run_outdir = ""
    /\ mutated = FALSE
    /\ start_report = "none"
    /\ add_pending = <<>>
    /\ ops = 0

FnIdle == fn_in = <<0, 0>> /\ fn_out = -1

Running == wpc = "run" /\ job.kind = "batch"

\* the batch job is between its first and its last statement
InLoop == Running /\ bpc # "begin"

\* an event loop runs on the Tk thread: the main loop between two handlers,
\* or the loop of the modal Confirm Delete dialog inside _delete_preset
TkEvents == fpc = "idle" /\ add_pending = <<>>

\* the Tk thread is in the main loop, between two handlers: it is not
\* inside _add_paths, nor inside the handler of WM_DELETE_WINDOW, nor in a
\* modal dialog, which keeps the events of the user from the main window
TkIdle == TkEvents /\ delete_name = ""

\* the user does one more thing (a click, a drop, an edit): it is counted,
\* with its weight, when it changes the state
Weighed(changed, weight) ==
    /\ ops' = (IF changed THEN ops + weight ELSE ops)
    /\ ops' <= MaxOps

\* an operation on the queue, the start button or the window
Counted(changed) == Weighed(changed, 1)

\* a change of the settings: a widget of the profile, the output directory,
\* the preset controls (the Del button is counted when its call is refused
\* or its dialog answered)
CountedEdit(changed) == Weighed(changed, 2)

UserOp == Counted(TRUE)

QueuePaths == {file_queue[k] : k \in 1..Len(file_queue)}

Wanted(f, existing) == f # "" /\ f \notin existing

\* _add_paths(paths), lines 711-712: existing_paths is computed once, before
\* the loop. The test of line 714 reads f_path and existing_paths only, so
\* the paths the loop is going to append are known here; the loop appends
\* them one at a time (AddPathsStep).
AddPaths(paths) ==
    LET existing == QueuePaths
        new == SelectSeq(paths, LAMBDA f : Wanted(f, existing))
    IN /\ TkIdle /\ Counted(new # <<>>)
       /\ Len(file_queue) + Len(new) <= MaxQueue
       /\ add_pending' = new
       /\ UNCHANGED <<start_report, pvars>>
       /\ UNCHANGED <<wvars, avars, fvars>>

\* the lists of paths the user adds: one file, two files, the same file
\* twice
PathLists ==
    {<<"a.wav">>, <<"b.wav">>, <<"a.wav", "b.wav">>, <<"a.wav", "a.wav">>}

\* _add_files, _add_folder, _on_drop: the paths chosen or dropped are given
\* to _add_paths
AddFiles == \E paths \in PathLists : AddPaths(paths)

\* _add_paths, lines 713-724 for the next path that passes the test of line
\* 714: its tags are read from the file and the item is appended. The
\* worker thread may run before and after each append.
AddPathsStep ==
    /\ fpc = "idle"
    /\ add_pending # <<>>
    /\ file_queue' = Append(file_queue, Head(add_pending))
    /\ add_pending' = Tail(add_pending)
    /\ mutated' = (mutated \/ InLoop)
    /\ UNCHANGED <<profile, output_directory, ffmpeg_available, process_btn,
                   after_queue, total, idx, bpc, out_path, calls, n_ok, n_err,
                   skipped, progress, run_queue, run_profile, run_outdir>>
    /\ UNCHANGED <<wvars, fvars, start_report, ops, pvars>>

\* _clear_queue
ClearQueue ==
    /\ TkIdle /\ Counted(file_queue # <<>>)
    /\ file_queue' = <<>>
    /\ mutated' = (mutated \/ (InLoop /\ file_queue # <<>>))
    /\ UNCHANGED <<profile, output_directory, ffmpeg_available, process_btn,
                   after_queue, total, idx, bpc, out_path, calls, n_ok, n_err,
                   skipped, progress, run_queue, run_profile, run_outdir>>
    /\ UNCHANGED <<wvars, fvars, start_report, add_pending, pvars>>

\* self.default_presets.get(name) or self.custom_presets.get(name)
PresetNamed(name) ==
    IF name \in DOMAIN default_presets THEN default_presets[name]
    ELSE IF name \in DOMAIN custom_presets THEN custom_presets[name]
    ELSE NoProfile

\* the Apply button: _apply_preset(self.current_preset.get()) sets the six
\* Tk variables of the profile from the preset of that name, and returns at
\* line 500 when there is none
ApplyPreset ==
    /\ TkIdle
    /\ profile' = (IF PresetNamed(current_preset) = NoProfile THEN profile
                   ELSE PresetNamed(current_preset))
    /\ CountedEdit(profile' # profile)
    /\ UNCHANGED <<file_queue, output_directory, ffmpeg_available, process_btn,
                   after_queue, total, idx, bpc, out_path, calls, n_ok, n_err,
                   skipped, progress, run_queue, run_profile, run_outdir,
                   mutated>>
    /\ UNCHANGED <<wvars, fvars, start_report, add_pending, pvars>>

\* the values the widgets of lines 311-326 offer for the six Tk variables
WidgetValues ==
    [format |-> {"mp3", "wav", "flac", "ogg", "m4a"},
     quality |-> {"low", "medium", "high", "lossless"},
     samplerate |-> {22050, 32000, 44100, 48000},
     channels |-> {1, 2},
     normalize |-> BOOLEAN,
     trim_silence |-> BOOLEAN]

\* the user picks a value in one of the comboboxes of the profile or
\* toggles one of its checkbuttons: that Tk variable alone is set
EditProfile ==
    /\ TkIdle
    /\ \E field \in DOMAIN WidgetValues :
         \E v \in WidgetValues[field] :
            /\ profile' = [profile EXCEPT ![field] = v]
            /\ CountedEdit(v # profile[field])
    /\ UNCHANGED <<file_queue, output_directory, ffmpeg_available, process_btn,
                   after_queue, total, idx, bpc, out_path, calls, n_ok, n_err,
                   skipped, progress, run_queue, run_profile, run_outdir,
                   mutated>>
    /\ UNCHANGED <<wvars, fvars, start_report, add_pending, pvars>>

\* the Output Directory entry (bound to self.output_directory) is edited, or
\* _browse_output sets a chosen directory
EditOutputDirectory ==
    /\ TkIdle
    /\ \E d \in Dirs :
         /\ output_directory' = d
         /\ CountedEdit(d # output_directory)
    /\ UNCHANGED <<file_queue, profile, ffmpeg_available, process_btn,
                   after_queue, total, idx, bpc, out_path, calls, n_ok, n_err,
                   skipped, progress, run_queue, run_profile, run_outdir,
                   mutated>>
    /\ UNCHANGED <<wvars, fvars, start_report, add_pending, pvars>>

\* the state _start_processing leaves self.process_btn in
BtnLeftEnabled == "normal"

BtnDisabled == "disabled"

BtnAfterStart == BtnDisabled

\* what a _start_processing call tells the user: the title of the message
\* box of the first check that fails, the OSError that os.makedirs raises
\* into the Tk callback handler, or the "Processing started" log line
NoEngineCheck(makedirs_ok) ==
    IF file_queue = <<>> THEN "No Files"
    ELSE IF output_directory = "" THEN "Output Folder"
    ELSE IF ~makedirs_ok THEN "OSError"
    ELSE "Processing started"

StartChecks(makedirs_ok) ==
    IF file_queue = <<>> THEN "No Files"
    ELSE IF ~ffmpeg_available THEN "FFmpeg Required"
    ELSE IF output_directory = "" THEN "Output Folder"
    ELSE IF ~makedirs_ok THEN "OSError"
    ELSE "Processing started"

StartReport(makedirs_ok) == StartChecks(makedirs_ok)

\* _start_processing returns early (no files, no engine, no output
\* directory) or os.makedirs raises: nothing but the report is changed
StartRefused ==
    /\ TkIdle
    /\ process_btn = "normal"
    /\ \E makedirs_ok \in BOOLEAN :
         /\ StartReport(makedirs_ok) # "Processing started"
         /\ start_report' = StartReport(makedirs_ok)
         /\ Counted(start_report' # start_report)
    /\ UNCHANGED <<wvars, avars, fvars, add_pending, pvars>>

\* a click on the disabled button: ttk does not invoke the command
StartIgnored ==
    /\ TkIdle
    /\ process_btn = "disabled"
    /\ UNCHANGED vars

\* _start_processing passes its checks: the button is disabled, the progress
\* reset, and _process_files is submitted to the worker. A disabled ttk
\* button does not invoke its command, hence the guard on process_btn.
StartProcessing ==
    /\ TkIdle /\ UserOp
    /\ process_btn = "normal"
    /\ StartReport(TRUE) = "Processing started"
    /\ start_report' = "Processing started"
    /\ process_btn' = BtnAfterStart
    /\ submit(BatchJob)
    /\ UNCHANGED <<file_queue, profile, output_directory, ffmpeg_available,
                   after_queue, total, idx, bpc, out_path, calls, n_ok, n_err,
                   skipped, progress, run_queue, run_profile, run_outdir,
                   mutated>>
    /\ UNCHANGED <<stop_flag, wpc, job, fpc, started, finished, errlog,
                   stop_calls, late_starts, fvars, add_pending, pvars>>

\* the state the completion callback leaves self.process_btn in
BtnStaysDisabled == "disabled"

BtnEnabled == "normal"

BtnAfterComplete == BtnEnabled

\* the event loop (the main loop, or the loop of an open dialog) runs the
\* oldest root.after callback: the lambda _process_files schedules when it
\* is done
UiAfter ==
    /\ TkEvents
    /\ after_queue # <<>>
    /\ after_queue' = Tail(after_queue)
    /\ process_btn' = BtnAfterComplete
    /\ UNCHANGED <<file_queue, profile, output_directory, ffmpeg_available,
                   total, idx, bpc, out_path, calls, n_ok, n_err, skipped,
                   progress, run_queue, run_profile, run_outdir, mutated>>
    /\ UNCHANGED <<wvars, fvars, uvars>>

\* main(), the WM_DELETE_WINDOW handler: app.worker.stop() and then
\* app.root.destroy(). stop() sets the flag (CloseWindow) and puts None
\* (CloseWindowPut); destroy() ends the main loop, main() returns and the
\* process ends with its daemon worker thread (CloseWindowEnd). The worker
\* thread runs until the process has ended. The handler is a protocol of
\* the window manager, which a modal dialog of the application does not
\* hold back: it also runs while the Confirm Delete dialog is open, and the
\* dialog is then never answered.
CloseWindow ==
    /\ TkEvents /\ UserOp
    /\ stop_flag' = TRUE
    /\ stop_calls' = stop_calls + 1
    /\ fpc' = "stop_put"
    /\ UNCHANGED <<q, unfinished_tasks, wpc, job, submitted, started, finished,
                   errlog, late_starts>>
    /\ UNCHANGED <<avars, fvars, start_report, add_pending, pvars>>

CloseWindowPut ==
    /\ fpc = "stop_put"
    /\ q' = Append(q, None)
    /\ unfinished_tasks' = unfinished_tasks + 1
    /\ fpc' = "destroy"
    /\ UNCHANGED <<stop_flag, wpc, job, submitted, started, finished, errlog,
                   stop_calls, late_starts>>
    /\ UNCHANGED <<avars, fvars, uvars>>

CloseWindowEnd ==
    /\ fpc = "destroy"
    /\ fpc' = "closed"
    /\ UNCHANGED <<q, stop_flag, unfinished_tasks, wpc, job, submitted, started,
                   finished, errlog, stop_calls, late_starts>>
    /\ UNCHANGED <<avars, fvars, uvars>>

CompleteEvent(n) == [kind |-> "complete", count |-> n]

\* _process_files, lines 793-794: total and pattern are read once
BatchBegin ==
    /\ Alive
    /\ Running /\ bpc = "begin"
    /\ total' = Len(file_queue)
    /\ idx' = 0
    /\ bpc' = "iter"
    /\ calls' = <<>> /\ skipped' = <<>> /\ progress' = <<>>
    /\ n_ok' = 0 /\ n_err' = 0
    /\ run_queue' = file_queue
    /\ run_profile' = profile
    /\ run_outdir' = output_directory
    /\ mutated' = FALSE
    /\ UNCHANGED <<file_queue, profile, output_directory, ffmpeg_available,
                   process_btn, after_queue, out_path>>
    /\ UNCHANGED <<wvars, fvars, uvars>>

\* the list iterator of enumerate(self.file_queue, start=1): it reads the
\* live list, by position
HasNext == idx < Len(file_queue)

\* line 802 for every total and item number a run of the application can
\* meet, computed once
PctOf == [n \in 1..MaxQueue |-> [i \in 1..MaxQueue |-> Pct(i, n)]]

\* lines 796-813 for the next item: the iterator hands out the item at its
\* position in the list as it is now, the progress value is computed and
\* given to _ui_progress, and the name is resolved
BatchItemPrepare ==
    /\ Alive
    /\ Running /\ bpc = "iter" /\ HasNext
    /\ total # 0
    /\ idx' = idx + 1
    /\ LET pct == PctOf[total][idx + 1] IN
         progress' = Append(progress, pct)
    /\ out_path' = [NoPath EXCEPT !.input = file_queue[idx + 1]]
    /\ bpc' = "dir"
    /\ UNCHANGED <<file_queue, profile, output_directory, ffmpeg_available,
                   process_btn, after_queue, total, calls, n_ok, n_err, skipped,
                   run_queue, run_profile, run_outdir, mutated>>
    /\ UNCHANGED <<wvars, fvars, uvars>>

\* lines 796-802 with total = 0: the iterator hands out the item and line
\* 802 raises ZeroDivisionError, caught at line 821
BatchItemDivZero ==
    /\ Alive
    /\ Running /\ bpc = "iter" /\ HasNext
    /\ total = 0
    /\ idx' = idx + 1
    /\ out_path' = [NoPath EXCEPT !.input = file_queue[idx + 1]]
    /\ bpc' = "except"
    /\ UNCHANGED <<file_queue, profile, output_directory, ffmpeg_available,
                   process_btn, after_queue, total, calls, n_ok, n_err, skipped,
                   progress, run_queue, run_profile, run_outdir, mutated>>
    /\ UNCHANGED <<wvars, fvars, uvars>>

\* line 822 for that item: the error is logged, a call into Tk the worker
\* thread waits in while the Tk thread goes on; the loop goes on with the
\* next item
BatchItemExcept ==
    /\ Alive
    /\ Running /\ bpc = "except"
    /\ skipped' = Append(skipped, out_path.input)
    /\ n_err' = n_err + 1
    /\ out_path' = NoPath
    /\ bpc' = "iter"
    /\ UNCHANGED <<file_queue, profile, output_directory, ffmpeg_available,
                   process_btn, after_queue, total, idx, calls, n_ok, progress,
                   run_queue, run_profile, run_outdir, mutated>>
    /\ UNCHANGED <<wvars, fvars, uvars>>

\* line 814, first read: self.output_directory.get()
BatchReadDirectory ==
    /\ Alive
    /\ Running /\ bpc = "dir"
    /\ out_path' = [out_path EXCEPT !.dir = output_directory]
    /\ bpc' = "ext"
    /\ UNCHANGED <<file_queue, profile, output_directory, ffmpeg_available,
                   process_btn, after_queue, total, idx, calls, n_ok, n_err,
                   skipped, progress, run_queue, run_profile, run_outdir,
                   mutated>>
    /\ UNCHANGED <<wvars, fvars, uvars>>

\* the Tk variables _build_ffmpeg_command reads, in the order it reads them
\* (lines 832-835, 842, 844)
ReadOrder ==
    <<"format", "quality", "samplerate", "channels", "trim_silence",
      "normalize">>

\* line 814, second read: self.output_format.get(); line 815 then calls
\* _build_ffmpeg_command
BatchReadFormat ==
    /\ Alive
    /\ Running /\ bpc = "ext"
    /\ out_path' = [out_path EXCEPT !.ext = profile.format]
    /\ bpc' = ReadOrder[1]
    /\ UNCHANGED <<file_queue, profile, output_directory, ffmpeg_available,
                   process_btn, after_queue, total, idx, calls, n_ok, n_err,
                   skipped, progress, run_queue, run_profile, run_outdir,
                   mutated>>
    /\ UNCHANGED <<wvars, fvars, uvars>>

ReadIndex(field) == CHOOSE k \in 1..Len(ReadOrder) : ReadOrder[k] = field

\* where _process_files is after the read of a field: at the next read, or
\* at subprocess.run with the command built (line 816)
AfterRead(field) ==
    IF ReadIndex(field) < Len(ReadOrder) THEN ReadOrder[ReadIndex(field) + 1]
    ELSE "invoke"

Reading == bpc \in {ReadOrder[k] : k \in 1..Len(ReadOrder)}

\* _build_ffmpeg_command: one read of a Tk variable, as it is now
BatchBuildCommand ==
    /\ Alive
    /\ Running /\ Reading
    /\ out_path' = [out_path EXCEPT !.profile[bpc] = profile[bpc]]
    /\ bpc' = AfterRead(bpc)
    /\ UNCHANGED <<file_queue, profile, output_directory, ffmpeg_available,
                   process_btn, after_queue, total, idx, calls, n_ok, n_err,
                   skipped, progress, run_queue, run_profile, run_outdir,
                   mutated>>
    /\ UNCHANGED <<wvars, fvars, uvars>>

\* where the loop is after an item: it goes on whatever the outcome
BreakOnFailure(result) == IF result = "ok" THEN "iter" ELSE "done"

Continue(result) == "iter"

AfterItem(result) == Continue(result)

\* line 816: subprocess.run is given the command built from the values
\* read; the worker thread waits for the engine while the Tk thread goes on
BatchItemInvoke ==
    /\ Alive
    /\ Running /\ bpc = "invoke"
    /\ calls' = Append(calls, out_path)
    /\ bpc' = "engine"
    /\ UNCHANGED <<file_queue, profile, output_directory, ffmpeg_available,
                   process_btn, after_queue, total, idx, out_path, n_ok, n_err,
                   skipped, progress, run_queue, run_profile, run_outdir,
                   mutated>>
    /\ UNCHANGED <<wvars, fvars, uvars>>

\* lines 816-822: subprocess.run returns exit code 0 (logged "OK"), returns
\* another exit code (logged "[ffmpeg] error") or raises (logged "[error]");
\* the outcome is logged and the loop goes on
BatchItemOutcome ==
    /\ Alive
    /\ Running /\ bpc = "engine"
    /\ \E result \in {"ok", "nonzero", "raised"} :
         /\ n_ok' = IF result = "ok" THEN n_ok + 1 ELSE n_ok
         /\ n_err' = IF result = "ok" THEN n_err ELSE n_err + 1
         /\ bpc' = AfterItem(result)
    /\ out_path' = NoPath
    /\ UNCHANGED <<file_queue, profile, output_directory, ffmpeg_available,
                   process_btn, after_queue, total, idx, calls, skipped,
                   progress, run_queue, run_profile, run_outdir, mutated>>
    /\ UNCHANGED <<wvars, fvars, uvars>>

\* the iterator is exhausted; lines 824-825: _ui_progress(100) and the
\* "Done" status line
BatchFinish ==
    /\ Alive
    /\ Running /\ bpc = "iter" /\ ~HasNext
    /\ progress' = Append(progress, 100)
    /\ bpc' = "done"
    /\ UNCHANGED <<file_queue, profile, output_directory, ffmpeg_available,
                   process_btn, after_queue, total, idx, out_path, calls, n_ok,
                   n_err, skipped, run_queue, run_profile, run_outdir, mutated>>
    /\ UNCHANGED <<wvars, fvars, uvars>>

\* lines 826-828: the callback that enables the button again and shows the
\* summary is given to root.after
BatchComplete ==
    /\ Alive
    /\ Running /\ bpc = "done"
    /\ after_queue' = Append(after_queue, CompleteEvent(total))
    /\ bpc' = "log"
    /\ UNCHANGED <<file_queue, profile, output_directory, ffmpeg_available,
                   process_btn, total, idx, out_path, calls, n_ok, n_err,
                   skipped, progress, run_queue, run_profile, run_outdir,
                   mutated>>
    /\ UNCHANGED <<wvars, fvars, uvars>>

\* line 829: the end is logged; _process_files returns (its locals and the
\* history of the run end with it) and Worker.run's finally clause runs
BatchReturn ==
    /\ Alive
    /\ Running /\ bpc = "log"
    /\ bpc' = "begin"
    /\ total' = 0 /\ idx' = 0 /\ out_path' = NoPath
    /\ calls' = <<>> /\ skipped' = <<>> /\ progress' = <<>>
    /\ n_ok' = 0 /\ n_err' = 0
    /\ run_queue' = <<>>
    /\ run_profile' = default_presets["High MP3"]
    /\ run_outdir' = ""
    /\ mutated' = FALSE
    /\ unfinished_tasks' = unfinished_tasks - 1
    /\ wpc' = "check"
    /\ UNCHANGED <<file_queue, profile, output_directory, ffmpeg_available,
                   process_btn, after_queue>>
    /\ UNCHANGED <<q, stop_flag, job, fpc, submitted, started, finished,
                   errlog, stop_calls, late_starts, fvars, uvars>>

\* ------------------------------------------------------------------ presets
\* presets.json: absent; a file open() or the JSON parser rejects (a
\* directory, an empty file, text that is not JSON); a name -> preset map;
\* bytes that are not UTF-8; JSON that is not a map
MissingStore == [kind |-> "missing", data |-> <<>>]

NoEvent ==
    [op |-> "none", name |-> "", report |-> "none",
     custom |-> <<>>, store |-> MissingStore]

BuiltinNames == DOMAIN default_presets

\* the names the user types into the Save Preset dialog; "" stands for an
\* empty entry and for Cancel
AskedNames == {"", "High MP3", "Mine", "Live"}

CorruptStore == [kind |-> "corrupt", data |-> <<>>]

UndecodableStore == [kind |-> "undecodable", data |-> <<>>]

NotMapStore == [kind |-> "notmap", data |-> <<>>]

JsonStore(d) == [kind |-> "json", data |-> d]

\* a dict with key k set to v, and with key k deleted
DictSet(d, k, v) ==
    [n \in DOMAIN d \cup {k} |-> IF n = k THEN v ELSE d[n]]

DictDel(d, k) == [n \in DOMAIN d \ {k} |-> d[n]]

\* the files presets.json the application may find when it starts
Stores ==
    {MissingStore, CorruptStore, UndecodableStore, NotMapStore,
     JsonStore(<<>>),
     JsonStore(DictSet(<<>>, "Mine", default_presets["Podcast"])),
     JsonStore(DictSet(<<>>, "High MP3", default_presets["Podcast"]))}

\* _load_presets does not return: json.load raises UnicodeDecodeError, which
\* line 433 does not catch, or _update_preset_combobox raises AttributeError
\* on a value that has no keys(); __init__ raises and main() ends
LoadRaises(store) == store.kind \in {"undecodable", "notmap"}

\* _load_presets: self.custom_presets for a given presets.json ({} is what
\* line 212 set, when json.load raised)
LoadPresets(store) ==
    IF store.kind = "json" THEN store.data ELSE <<>>

\* _update_preset_combobox: the values of the combobox
ComboValues(custom) == BuiltinNames \cup DOMAIN custom

\* __init__ over the presets.json of a set: the presets are loaded and the
\* combobox filled and showing "High MP3", or __init__ raised
PresetLoadedFrom(stores) ==
    /\ preset_store \in stores
    /\ custom_presets = LoadPresets(preset_store)
    /\ current_preset = "High MP3"
    /\ preset_values = (IF LoadRaises(preset_store) THEN {}
                        ELSE ComboValues(custom_presets))
    /\ delete_name = ""
    /\ preset_event = NoEvent

\* __init__ with no presets.json next to the application
PresetInit == PresetLoadedFrom({MissingStore})

\* __init__ with any presets.json
PresetLoaded == PresetLoadedFrom(Stores)

Event(op, name, report) ==
    [op |-> op, name |-> name, report |-> report,
     custom |-> custom_presets, store |-> preset_store]

\* open(CUSTOM_PRESETS_FILE, "w") and json.dump: done, or IOError from open
\* (the file is as it was), or IOError from the dump (the file was truncated
\* by open and holds part of the text)
WriteOutcomes == {"ok", "open_fails", "dump_fails"}

Written(d, outcome) ==
    CASE outcome = "ok" -> JsonStore(d)
      [] outcome = "open_fails" -> preset_store
      [] outcome = "dump_fails" -> CorruptStore

\* the user picks a name in the readonly preset combobox, among the values
\* it offers
SelectPreset ==
    /\ TkIdle
    /\ \E n \in preset_values :
         /\ current_preset' = n
         /\ CountedEdit(n # current_preset)
    /\ UNCHANGED <<custom_presets, preset_store, preset_values, delete_name,
                   preset_event>>
    /\ UNCHANGED <<wvars, avars, fvars, start_report, add_pending>>

\* what _save_preset does with the name asked for, by its checks
SaveChecks(name) ==
    IF name = "" THEN "cancelled"
    ELSE IF name \in BuiltinNames THEN "Cannot Overwrite"
    ELSE "write"

\* _save_preset
SavePreset ==
    /\ TkIdle
    /\ \E name \in AskedNames, outcome \in WriteOutcomes :
         IF SaveChecks(name) # "write"
         THEN /\ preset_event' = Event("save", name, SaveChecks(name))
              /\ UNCHANGED <<custom_presets, preset_store, current_preset,
                             preset_values>>
         ELSE /\ custom_presets' = DictSet(custom_presets, name, profile)
              /\ preset_store' = Written(custom_presets', outcome)
              /\ preset_values' =
                     IF outcome = "ok" THEN ComboValues(custom_presets')
                     ELSE preset_values
              /\ current_preset' =
                     IF outcome = "ok" THEN name ELSE current_preset
              /\ preset_event' =
                     Event("save", name,
                           IF outcome = "ok" THEN "saved" ELSE "Save Failed")
    /\ UNCHANGED delete_name
    /\ CountedEdit(pvars' # pvars)
    /\ UNCHANGED <<wvars, avars, fvars, start_report, add_pending>>

\* what _delete_preset does with the name the combobox shows, by its checks
DeleteNoBuiltinCheck(name) ==
    IF name = "" THEN "cancelled"
    ELSE IF name \notin DOMAIN custom_presets THEN "Not Found"
    ELSE "confirm"

DeleteChecksInOrder(name) ==
    IF name = "" THEN "cancelled"
    ELSE IF name \in BuiltinNames THEN "Cannot Delete"
    ELSE IF name \notin DOMAIN custom_presets THEN "Not Found"
    ELSE "confirm"

DeleteChecks(name) == DeleteChecksInOrder(name)

\* _delete_preset, lines 476-486: the name the combobox shows is read and
\* tested. A refused call ends with its message box; otherwise the modal
\* Confirm Delete dialog opens, and its event loop runs (the worker thread
\* goes on, pending root.after callbacks run) until the user answers.
DeletePreset ==
    /\ TkIdle
    /\ LET name == current_preset IN
         IF DeleteChecks(name) # "confirm"
         THEN /\ preset_event' = Event("delete", name, DeleteChecks(name))
              /\ delete_name' = ""
              /\ CountedEdit(preset_event' # preset_event)
         ELSE /\ delete_name' = name
              /\ UNCHANGED <<preset_event, ops>>
    /\ UNCHANGED <<custom_presets, preset_store, current_preset, preset_values>>
    /\ UNCHANGED <<wvars, avars, fvars, start_report, add_pending>>

\* _delete_preset, lines 486-496: askyesno returns the answer of the user;
\* on yes the preset is deleted and the presets are written
DeletePresetAnswer ==
    /\ TkEvents /\ delete_name # ""
    /\ \E yes \in BOOLEAN, outcome \in WriteOutcomes :
         LET name == delete_name IN
         IF ~yes
         THEN /\ preset_event' = Event("delete", name, "declined")
              /\ UNCHANGED <<custom_presets, preset_store, current_preset,
                             preset_values>>
         ELSE /\ custom_presets' = DictDel(custom_presets, name)
              /\ preset_store' = Written(custom_presets', outcome)
              /\ preset_values' =
                     IF outcome = "ok" THEN ComboValues(custom_presets')
                     ELSE preset_values
              /\ current_preset' =
                     IF outcome = "ok" THEN "High MP3" ELSE current_preset
              /\ preset_event' =
                     Event("delete", name,
                           IF outcome = "ok" THEN "deleted" ELSE "Save Failed")
    /\ delete_name' = ""
    /\ CountedEdit(TRUE)
    /\ UNCHANGED <<wvars, avars, fvars, start_report, add_pending>>

\* ------------------------------------------------------------------ the application
Init == WorkerInit /\ AppInit /\ FnIdle /\ PresetInit

\* One step of the application: a handler of the Tk thread, one more
\* statement of the handler it is in, or one step of the worker thread.
Next ==
    \/ AddFiles
    \/ AddPathsStep
    \/ ClearQueue
    \/ SelectPreset
    \/ ApplyPreset
    \/ SavePreset
    \/ DeletePreset
    \/ DeletePresetAnswer
    \/ EditProfile
    \/ EditOutputDirectory
    \/ StartRefused
    \/ StartIgnored
    \/ StartProcessing
    \/ UiAfter
    \/ CloseWindow
    \/ CloseWindowPut
    \/ CloseWindowEnd
    \/ WorkerCheck
    \/ WorkerGet
    \/ WorkerTimeout
    \/ BatchBegin
    \/ BatchItemPrepare
    \/ BatchItemDivZero
    \/ BatchItemExcept
    \/ BatchReadDirectory
    \/ BatchReadFormat
    \/ BatchBuildCommand
    \/ BatchItemInvoke
    \/ BatchItemOutcome
    \/ BatchFinish
    \/ BatchComplete
    \/ BatchReturn

Spec == Init /\ [][Next]_vars

\* the worker thread is scheduled, every engine call returns, and the main
\* loop runs its pending callbacks
\* one step of the worker thread while the application runs
WorkerRunBatch ==
    \/ WorkerCheck
    \/ WorkerGet
    \/ WorkerTimeout
    \/ BatchBegin
    \/ BatchItemPrepare
    \/ BatchItemDivZero
    \/ BatchItemExcept
    \/ BatchReadDirectory
    \/ BatchReadFormat
    \/ BatchBuildCommand
    \/ BatchItemInvoke
    \/ BatchItemOutcome
    \/ BatchFinish
    \/ BatchComplete
    \/ BatchReturn

\* one step of the Tk thread that no user asks for: the handler it is in
\* goes on, or the main loop runs a pending callback
TkRun ==
    \/ AddPathsStep
    \/ CloseWindowPut
    \/ CloseWindowEnd
    \/ UiAfter

\* the worker thread keeps being scheduled, every engine invocation
\* terminates, and the Tk thread keeps running
Fairness == WF_vars(WorkerRunBatch) /\ WF_vars(TkRun)

FairSpec == Spec /\ Fairness

\* ------------------------------------------------------------------ the preset store
\* The application started with any presets.json: when __init__ raises
\* there is no application.
PresetSpecInit ==
    /\ PresetLoaded
    /\ WorkerInitAt(IF LoadRaises(preset_store) THEN "closed" ELSE "idle")
    /\ AppInit
    /\ FnIdle

PresetSpec == PresetSpecInit /\ [][Next]_vars

\* ------------------------------------------------------------------ pure functions
\* The state in which the specifications of the pure functions leave the
\* rest of the application.
Parked ==
    /\ WorkerInit
    /\ AppInit /\ ~ffmpeg_available
    /\ PresetInit

\* ------------------------------------------------------------------ find_ffmpeg
exe_names == <<"ffmpeg.exe", "ffmpeg">>

\* BASE_DIR / name, BASE_DIR / "bin" / name, ASSETS_DIR / name
CandidatesOf(name) ==
    <<[loc |-> "base", name |-> name], [loc |-> "bin", name |-> name],
      [loc |-> "assets", name |-> name]>>

\* the list candidates after the loop over exe_names
candidates == CandidatesOf(exe_names[1]) \o CandidatesOf(exe_names[2])

CandidateSet == {candidates[k] : k \in 1..Len(candidates)}

Unresolved == [loc |-> "unresolved", name |-> ""]

\* find_ffmpeg for an environment e: e.env says that FFMPEG_PATH names a
\* file, e.files is the set of candidates that are files, e.which says
\* that shutil.which finds ffmpeg
find_ffmpeg(e) ==
    IF e.env THEN [loc |-> "env", name |-> "FFMPEG_PATH"]
    ELSE IF \E k \in 1..Len(candidates) : candidates[k] \in e.files
    THEN candidates[CHOOSE k \in 1..Len(candidates) :
                       /\ candidates[k] \in e.files
                       /\ \A j \in 1..(k - 1) : candidates[j] \notin e.files]
    ELSE IF e.which THEN [loc |-> "which", name |-> "ffmpeg"]
    ELSE [loc |-> "none", name |-> "ffmpeg"]

Environments ==
    [env : BOOLEAN, files : SUBSET CandidateSet, which : BOOLEAN]

FfmpegInit ==
    /\ Parked
    /\ fn_in \in Environments
    /\ fn_out = Unresolved

ResolveEngine ==
    /\ fn_out = Unresolved
    /\ fn_out' = find_ffmpeg(fn_in)
    /\ UNCHANGED <<fn_in, wvars, avars, uvars>>

FfmpegNext == ResolveEngine

FfmpegSpec == FfmpegInit /\ [][FfmpegNext]_vars

\* ------------------------------------------------------------------ _build_ffmpeg_command
FFMPEG_BIN == "ffmpeg"

TrimFilter ==
    "silenceremove=start_periods=1:start_threshold=-45dB:start_silence=0.4"

NormalizeFilter == "loudnorm=I=-14:TP=-1.5:LRA=11"

\* ",".join(fs)
JoinComma(fs) ==
    IF Len(fs) = 0 THEN ""
    ELSE IF Len(fs) = 1 THEN fs[1]
    ELSE fs[1] \o "," \o fs[2]

NormalizeFirst(p) ==
    (IF p.normalize THEN <<NormalizeFilter>> ELSE <<>>)
        \o (IF p.trim_silence THEN <<TrimFilter>> ELSE <<>>)

TrimFirst(p) ==
    (IF p.trim_silence THEN <<TrimFilter>> ELSE <<>>)
        \o (IF p.normalize THEN <<NormalizeFilter>> ELSE <<>>)

\* the list afilters for profile p
afilters(p) == TrimFirst(p)

FilterArgs(p) ==
    IF afilters(p) # <<>> THEN <<"-af", JoinComma(afilters(p))>> ELSE <<>>

\* the keys of the tags dict, in the order _read_tags inserts them
TagKeys == <<"title", "artist", "album">>

RECURSIVE MetadataFrom(_, _)
\* the -metadata arguments for the keys k.. of tags t
MetadataFrom(t, k) ==
    IF k > Len(TagKeys) THEN <<>>
    ELSE (IF t[TagKeys[k]] # ""
          THEN <<"-metadata", TagKeys[k] \o "=" \o t[TagKeys[k]]>>
          ELSE <<>>) \o MetadataFrom(t, k + 1)

MetadataArgs(t) == MetadataFrom(t, 1)

Qualities == {"low", "medium", "high", "lossless"}

\* the three qmap dicts
qmap(fmt) ==
    CASE fmt = "mp3" ->
           [low |-> <<"-b:a", "128k">>, medium |-> <<"-b:a", "192k">>,
            high |-> <<"-b:a", "320k">>, lossless |-> <<"-b:a", "320k">>]
      [] fmt = "ogg" ->
           [low |-> <<"-q:a", "3">>, medium |-> <<"-q:a", "6">>,
            high |-> <<"-q:a", "9">>, lossless |-> <<"-q:a", "10">>]
      [] fmt = "m4a" ->
           [low |-> <<"-c:a", "aac", "-b:a", "128k">>,
            medium |-> <<"-c:a", "aac", "-b:a", "192k">>,
            high |-> <<"-c:a", "aac", "-b:a", "256k">>,
            lossless |-> <<"-c:a", "aac", "-b:a", "320k">>]

QmapDefaultHigh(fmt) == qmap(fmt)["high"]

QmapDefaultMedium(fmt) ==
    CASE fmt = "mp3" -> <<"-b:a", "192k">>
      [] fmt = "ogg" -> <<"-q:a", "6">>
      [] fmt = "m4a" -> <<"-c:a", "aac", "-b:a", "192k">>

\* the second argument of qmap.get(qual, ...)
QmapDefault(fmt) == QmapDefaultMedium(fmt)

\* the arguments of the if/elif chain over fmt
FormatArgs(fmt, qual) ==
    CASE fmt \in {"mp3", "ogg", "m4a"} ->
           IF qual \in DOMAIN qmap(fmt) THEN qmap(fmt)[qual]
           ELSE QmapDefault(fmt)
      [] fmt = "wav" -> <<"-acodec", "pcm_s16le">>
      [] fmt = "flac" -> <<"-acodec", "flac", "-compression_level", "5">>
      [] OTHER -> <<>>

\* _build_ffmpeg_command(input_file, output_file, tags) with the profile p
\* the Tk variables hold
build_ffmpeg_command(p, input_file, output_file, tags) ==
    <<FFMPEG_BIN, "-y", "-i", input_file,
      "-ac", ToString(p.channels), "-ar", ToString(p.samplerate)>>
        \o FilterArgs(p)
        \o MetadataArgs(tags)
        \o FormatArgs(p.format, p.quality)
        \o <<output_file>>

\* the profiles the Tk variables can hold: the comboboxes' values, and a
\* format and a quality that only a preset read from presets.json can set
Formats == {"mp3", "wav", "flac", "ogg", "m4a", "opus"}

Profiles ==
    [format : Formats, quality : Qualities \cup {"best"},
     normalize : BOOLEAN, trim_silence : BOOLEAN,
     samplerate : {44100}, channels : {1, 2}]

TagSets == [{"title", "artist", "album"} -> {"", "X"}]

NoCommand == <<>>

CommandInit ==
    /\ Parked
    /\ fn_in \in [p : Profiles, tags : TagSets]
    /\ fn_out = NoCommand

BuildCommand ==
    /\ fn_out = NoCommand
    /\ fn_out' = build_ffmpeg_command(fn_in.p, "in.wav", "out", fn_in.tags)
    /\ UNCHANGED <<fn_in, wvars, avars, uvars>>

CommandNext == BuildCommand

CommandSpec == CommandInit /\ [][CommandNext]_vars

\* ------------------------------------------------------------------ the output name
\* Strings are sequences of characters here, so that lower(), replace() and
\* the regular expression of _sanitize_filename act character by character.
UpperCase ==
    <<"A", "B", "C", "D", "E", "F", "G", "H", "I", "J", "K", "L",
      "M", "N", "O", "P", "Q", "R", "S", "T", "U", "V", "W", "X",
      "Y", "Z">>

LowerCase ==
    <<"a", "b", "c", "d", "e", "f", "g", "h", "i", "j", "k", "l",
      "m", "n", "o", "p", "q", "r", "s", "t", "u", "v", "w", "x",
      "y", "z">>

\* str.lower() on one character of the alphabet used
LowerChar(c) ==
    IF \E k \in 1..Len(UpperCase) : UpperCase[k] = c
    THEN LowerCase[CHOOSE k \in 1..Len(UpperCase) : UpperCase[k] = c]
    ELSE c

\* str.lower()
Lower(t) == [k \in 1..Len(t) |-> LowerChar(t[k])]

\* the positions where old occurs in t
Occurrences(t, old) ==
    {k \in 1..(Len(t) - Len(old) + 1) : SubSeq(t, k, k + Len(old) - 1) = old}

RECURSIVE Replace(_, _, _)
\* str.replace(old, new): every occurrence, leftmost first, not overlapping
Replace(t, old, new) ==
    IF Occurrences(t, old) = {} THEN t
    ELSE LET k == CHOOSE i \in Occurrences(t, old) :
                      \A j \in Occurrences(t, old) : i <= j
         IN SubSeq(t, 1, k - 1) \o new
                \o Replace(SubSeq(t, k + Len(old), Len(t)), old, new)

\* the character class [\\/*?:"<>|] of _sanitize_filename
IllegalChars == {"\\", "/", "*", "?", ":", "\"", "<", ">", "|"}

IllegalButColon == IllegalChars \ {":"}

SanitizeNoColon(name) ==
    [k \in 1..Len(name) |->
        IF name[k] \in IllegalButColon THEN "_" ELSE name[k]]

SanitizeAll(name) ==
    [k \in 1..Len(name) |-> IF name[k] \in IllegalChars THEN "_" ELSE name[k]]

\* _sanitize_filename
sanitize_filename(name) == SanitizeAll(name)

TokArtist == <<"[", "a", "r", "t", "i", "s", "t", "]">>

TokAlbum == <<"[", "a", "l", "b", "u", "m", "]">>

TokTitle == <<"[", "t", "i", "t", "l", "e", "]">>

TokFilename == <<"[", "f", "i", "l", "e", "n", "a", "m", "e", "]">>

UnknownArtist ==
    <<"U", "n", "k", "n", "o", "w", "n", " ", "A", "r", "t", "i",
      "s", "t">>

UnknownAlbum ==
    <<"U", "n", "k", "n", "o", "w", "n", " ", "A", "l", "b", "u", "m">>

\* x or default
OrElse(x, default) == IF x = <<>> THEN default ELSE x

\* lines 807-812: the base name for a pattern, the tags of the item and the
\* stem of its path
resolve_name(pattern, tags, stem) ==
    LET n0 == Lower(pattern)
        n1 == Replace(n0, TokArtist, OrElse(tags.artist, UnknownArtist))
        n2 == Replace(n1, TokAlbum, OrElse(tags.album, UnknownAlbum))
        n3 == Replace(n2, TokTitle, OrElse(tags.title, stem))
        n4 == Replace(n3, TokFilename, stem)
    IN sanitize_filename(n4)

MaxPieces == 2   \* pieces a naming pattern of the model is made of at most

\* what the user types into the Naming Pattern entry, piece by piece
Pieces ==
    {TokArtist, TokAlbum, TokFilename,
     <<"[", "T", "i", "t", "l", "e", "]">>,
     <<" ", "-", " ">>,
     <<"A", ":", "/">>}

RECURSIVE Concat(_)
Concat(ps) == IF ps = <<>> THEN <<>> ELSE ps[1] \o Concat(Tail(ps))

\* the default of self.naming_pattern
DefaultPattern ==
    <<"[", "a", "r", "t", "i", "s", "t", "]", " ", "-", " ", "[",
      "t", "i", "t", "l", "e", "]">>

Patterns ==
    {DefaultPattern}
        \cup {Concat(ps) : ps \in UNION {[1..n -> Pieces] : n \in 1..MaxPieces}}

TagValues ==
    [artist : {<<>>, <<"A", "C", "/", "D", "C">>},
     album : {<<>>, <<"L", "i", "v", "e">>},
     title : {<<>>, <<"S", "o", "n", "g">>}]

Stems == {<<"f", "i", "l", "e", "0", "1">>, <<"M", "y", ":", "F", "i", "l", "e">>}

NoName == <<"unresolved">>

NameInit ==
    /\ Parked
    /\ fn_in \in [pattern : Patterns, tags : TagValues, stem : Stems]
    /\ fn_out = NoName

ResolveName ==
    /\ fn_out = NoName
    /\ fn_out' = resolve_name(fn_in.pattern, fn_in.tags, fn_in.stem)
    /\ UNCHANGED <<fn_in, wvars, avars, uvars>>

NameNext == ResolveName

NameSpec == NameInit /\ [][NameNext]_vars

\* ------------------------------------------------------------------ the progress value
MaxTotal == 50   \* the longest queue whose progress values are computed

ProgressInit ==
    /\ WorkerInit
    /\ AppInit /\ ~ffmpeg_available
    /\ fn_in \in {<<i, n>> : i \in 1..MaxTotal, n \in 1..MaxTotal}
    /\ fn_in[1] <= fn_in[2]
    /\ fn_out = -1
    /\ PresetInit

\* line 802 for item i of a run over total items
ComputePct ==
    /\ fn_out = -1
    /\ fn_out' = Pct(fn_in[1], fn_in[2])
    /\ UNCHANGED <<fn_in, wvars, avars, uvars>>

ProgressNext == ComputePct

ProgressSpec == ProgressInit /\ [][ProgressNext]_vars

\* ------------------------------------------------------------------ the Worker alone
\* a Worker of an application that submits no batch
WorkerStart ==
    /\ WorkerInit
    /\ AppInit /\ ffmpeg_available = FALSE
    /\ FnIdle
    /\ PresetInit

WorkerNext ==
    \/ ClientSubmit
    \/ Stop
    \/ WorkerCheck
    \/ WorkerGet
    \/ WorkerTimeout
    \/ WorkerJobReturns
    \/ WorkerJobRaises

WorkerSpec == WorkerStart /\ [][WorkerNext]_vars

\* the worker thread is scheduled, and a job that has begun ends
\* one step of the worker thread
WorkerRun ==
    \/ WorkerCheck
    \/ WorkerGet
    \/ WorkerTimeout
    \/ WorkerJobReturns
    \/ WorkerJobRaises

\* the worker thread keeps being scheduled, every job terminates, and a
\* stop() call that has set the flag goes on to put the sentinel
WorkerFairness == WF_vars(WorkerRun) /\ WF_vars(StopPut)

WorkerFairSpec == WorkerSpec /\ WorkerFairness

\* ------------------------------------------------------------------ claims
Inputs(cs) == [k \in 1..Len(cs) |-> cs[k].input]

\* the loop has taken an item and has not yet called the engine for it
ItemInHand == bpc \notin {"begin", "iter", "engine", "done", "log"}

\* the engine was called for the item in hand and has not yet returned
EngineBusy == bpc = "engine"

\* C1: in a batch run whose queue the foreground leaves alone, the engine
\* is called once per item, in queue order, whatever the outcomes: the calls
\* made so far are the first items of the queue, one per item the loop has
\* passed, no item is skipped, one line is logged per call that has returned,
\* and when the run is done the calls are exactly the queue.
C1_FailureIsolation ==
    (Running /\ bpc # "begin" /\ ~mutated) =>
        /\ Len(calls) = (IF ItemInHand THEN idx - 1 ELSE idx)
        /\ Inputs(calls) = SubSeq(run_queue, 1, Len(calls))
        /\ skipped = <<>>
        /\ n_ok + n_err = (IF EngineBusy THEN Len(calls) - 1 ELSE Len(calls))
        /\ bpc = "done" => Inputs(calls) = run_queue

C1_Witness ==
    /\ Running /\ bpc = "done" /\ ~mutated
    /\ Len(run_queue) >= 2 /\ run_queue[1] # run_queue[2]
    /\ n_err = Len(run_queue)
    /\ Inputs(calls) = run_queue

IsPrefix(s, t) == Len(s) <= Len(t) /\ \A k \in 1..Len(s) : s[k] = t[k]

Raising(j) == j.raises

C2_Serial ==
    /\ IsPrefix(started, submitted)
    /\ IsPrefix(finished, started)
    /\ Len(started) - Len(finished) = (IF wpc = "run" THEN 1 ELSE 0)
    /\ wpc = "run" => job = started[Len(started)]

C2_SubmitStep ==
    Len(submitted') > Len(submitted) =>
        /\ q' = Append(q, submitted'[Len(submitted')])
        /\ wpc' = wpc /\ job' = job
        /\ started' = started /\ finished' = finished

\* C2: the worker executes the submitted jobs one at a time in submission
\* order (the jobs begun are a prefix of the jobs submitted, at most one job
\* has begun and not ended, and that job is the one the worker holds), and a
\* submit() step appends the job to the queue and changes nothing of the
\* worker.
C2_FifoOneAtATime == [](C2_Serial) /\ [][C2_SubmitStep]_vars

C2_Witness ==
    /\ wpc = "run" /\ Len(finished) = 1
    /\ Len(q) = 1 /\ q[1].kind = "job"

C3_Survives ==
    /\ stop_calls = 0 => wpc # "exited"
    /\ errlog = SelectSeq(finished, Raising)
    /\ (stop_calls = 0 /\ wpc \in {"check", "get"} /\ q = <<>>)
          => finished = submitted

C3_Served ==
    \A n \in 1..MaxJobs :
        (Len(submitted) >= n /\ stop_calls = 0)
            ~> (Len(finished) >= n \/ stop_calls > 0)

\* C3: a job that raises is caught and logged by the worker (the error log
\* holds exactly the raising jobs that ended), the worker loop goes on
\* (without a stop() the loop never exits), and every job submitted, also
\* after a failing one, is executed unless stop() is called first.
C3_WorkerSurvivesFailingJob == [](C3_Survives) /\ C3_Served

C3_Witness ==
    /\ stop_calls = 0
    /\ Len(finished) >= 2 /\ finished[1].raises
    /\ errlog = <<finished[1]>>

\* C4: once stop() has been called the worker starts no new job.
C4_NoStartAfterStop == late_starts = {}

\* C5: after stop() is called (once or several times, the worker idle or
\* busy) the worker loop eventually exits, given that the job in progress
\* ends.
C5_StopLeadsToExit == (stop_calls > 0) ~> (wpc = "exited")

C5_Witness ==
    /\ wpc = "exited" /\ stop_calls >= 2
    /\ Len(finished) >= 1 /\ Len(q) >= 1

\* C6: unless the window is closed, a batch that is running reaches the end
\* of its loop (Completed) and then the state where no batch runs and the
\* start button is enabled again (Idle), whatever items fail.
C6_RunCompletes ==
    /\ Running ~> (~Alive \/ (Running /\ bpc \in {"done", "log"}))
    /\ Running ~> (~Alive \/ (~Running /\ process_btn = "normal"
                                        /\ after_queue = <<>>))

C6_Witness ==
    /\ ~Running /\ process_btn = "disabled"
    /\ after_queue # <<>> /\ after_queue[1].count >= 2

BatchesQueued == Cardinality({k \in 1..Len(q) : q[k].kind = "batch"})

BatchesInFlight == BatchesQueued + (IF Running THEN 1 ELSE 0)

\* C7 as stated: at most one batch job is queued or running, and while one
\* is, the start button is disabled, so that a start request is not accepted.
C7_OneBatchInFlight ==
    /\ BatchesInFlight <= 1
    /\ BatchesInFlight = 1 => process_btn = "disabled"

\* the batch job in the worker has scheduled its completion callback: only
\* the log call of line 829 and the return are left of it
BatchCompleting == Running /\ bpc = "log"

\* the batch jobs that are queued, or running and not yet at line 829
BatchesActive == BatchesQueued + (IF Running /\ ~BatchCompleting THEN 1 ELSE 0)

\* C7, amended: at most one batch job is queued or at work on the queue, and
\* while one is, the start button is disabled, so that a start request is
\* not accepted; a second batch job is with the worker only while the first
\* is at its last statement, after it scheduled its completion callback, and
\* then waits in the worker's queue until the first has returned.
C7_OneBatchActive ==
    /\ BatchesActive <= 1
    /\ BatchesActive = 1 => process_btn = "disabled"
    /\ BatchesInFlight <= 2
    /\ BatchesInFlight = 2 => (BatchCompleting /\ BatchesQueued = 1)

C7_Witness ==
    /\ BatchesInFlight = 2 /\ BatchesActive = 1
    /\ process_btn = "disabled" /\ start_report = "Processing started"

Refusals == {"No Files", "FFmpeg Required", "Output Folder", "OSError"}

C11_SubmitStep ==
    BatchesInFlight' > BatchesInFlight =>
        /\ file_queue # <<>> /\ ffmpeg_available /\ output_directory # ""
        /\ start_report' = "Processing started"

C11_RefusalStep ==
    (start_report' # start_report /\ start_report' \in Refusals) =>
        /\ start_report' = "No Files" => file_queue = <<>>
        /\ start_report' = "FFmpeg Required" => ~ffmpeg_available
        /\ start_report' = "Output Folder" => output_directory = ""
        /\ BatchesInFlight' = BatchesInFlight
        /\ process_btn' = "normal" /\ q' = q

C11_Refused ==
    /\ start_report = "none" => BatchesInFlight = 0
    /\ ~ffmpeg_available
          => (BatchesInFlight = 0 /\ process_btn = "normal"
              /\ start_report # "Processing started")

\* C11: a batch is submitted only by a start request made with a non-empty
\* queue, the engine detected and an output directory set (and created); a
\* start request that fails one of these checks tells the user which one,
\* submits nothing and leaves the start button enabled (Idle).
C11_StartGuard ==
    /\ [](C11_Refused)
    /\ [][C11_SubmitStep /\ C11_RefusalStep]_vars

C11_Witness ==
    /\ start_report = "FFmpeg Required" /\ file_queue # <<>>
    /\ output_directory # "" /\ q = <<>> /\ process_btn = "normal"


\* C12: when a run over n items is done, its per-item log lines count k
\* failures and n-k successes, the last progress value is 100, and the
\* completion summary counts as successfully processed exactly the items
\* whose engine call succeeded.
C12_SummaryCounts ==
    (Running /\ bpc = "done" /\ ~mutated) =>
        /\ n_ok + n_err = Len(run_queue)
        /\ progress[Len(progress)] = 100
        /\ CompleteEvent(total).count = n_ok

\* C13: the queue never holds two items with the same path.
C13_NoDuplicatePaths ==
    \A i, j \in 1..Len(file_queue) :
        i # j => file_queue[i] # file_queue[j]

\* C14: no user preset has the name of a built-in preset.
C14_NoBuiltinNameInCustom == DOMAIN custom_presets \cap BuiltinNames = {}

\* C15: a _delete_preset call made while the combobox shows a built-in name
\* is rejected with "Cannot Delete" and leaves the user presets and the
\* preset file as they were (the built-in presets are a constant table).
C15_DeleteBuiltinRejected ==
    (preset_event.op = "delete" /\ preset_event.name \in BuiltinNames) =>
        /\ preset_event.report = "Cannot Delete"
        /\ custom_presets = preset_event.custom
        /\ preset_store = preset_event.store

C15_Witness ==
    /\ preset_event.op = "delete" /\ preset_event.name \in BuiltinNames
    /\ "Mine" \in DOMAIN custom_presets

\* the locations of the search order, first to last
LocationOrder == <<"env", "base", "bin", "assets", "which">>

LocationRank(loc) == CHOOSE k \in 1..Len(LocationOrder) : LocationOrder[k] = loc

LocationsWithBinary(e) ==
    (IF e.env THEN {"env"} ELSE {})
        \cup {c.loc : c \in e.files}
        \cup (IF e.which THEN {"which"} ELSE {})

\* C16: the engine resolved is in the first location of the order
\* environment, bundled directory, bin, assets, system path that holds a
\* binary, whatever the executable names.
C16_FirstLocationWins ==
    (fn_out # Unresolved /\ LocationsWithBinary(fn_in) # {}) =>
        /\ fn_out.loc \in LocationsWithBinary(fn_in)
        /\ \A l \in LocationsWithBinary(fn_in) :
              LocationRank(fn_out.loc) <= LocationRank(l)

Positions(cmd, arg) == {k \in 1..Len(cmd) : cmd[k] = arg}

TagsSet(t) == {k \in DOMAIN t : t[k] # ""}

\* C17: the command is engine, -y, -i input, -ac channels, -ar sampleRate,
\* then -af with one filter argument exactly when a filter is enabled (trim
\* before normalize when both are), then one -metadata pair per non-empty
\* tag, then the format arguments, and the output path last.
C17_CommandShape ==
    fn_out # NoCommand =>
        LET cmd == fn_out
            p == fn_in.p
            af == IF p.trim_silence \/ p.normalize THEN 2 ELSE 0
            m == Cardinality(TagsSet(fn_in.tags))
        IN
        /\ SubSeq(cmd, 1, 8) =
              <<"ffmpeg", "-y", "-i", "in.wav", "-ac", ToString(p.channels),
                "-ar", ToString(p.samplerate)>>
        /\ cmd[Len(cmd)] = "out"
        /\ Positions(cmd, "-af") = (IF af = 2 THEN {9} ELSE {})
        /\ (p.trim_silence /\ p.normalize) =>
               cmd[10] = TrimFilter \o "," \o NormalizeFilter
        /\ (p.trim_silence /\ ~p.normalize) => cmd[10] = TrimFilter
        /\ (~p.trim_silence /\ p.normalize) => cmd[10] = NormalizeFilter
        /\ Positions(cmd, "-metadata") = {8 + af + 2 * k - 1 : k \in 1..m}
        /\ Len(cmd) >= 8 + af + 2 * m + 1

C17_Witness ==
    /\ fn_out # NoCommand
    /\ fn_in.p.trim_silence /\ fn_in.p.normalize
    /\ fn_in.p.format = "m4a"
    /\ fn_in.tags["artist"] = "" /\ fn_in.tags["title"] = "X"
    /\ fn_out[9] = "-af" /\ fn_out[11] = "-metadata"

\* the table of the encoding rate per format and quality
RateTable ==
    [mp3 |-> [low |-> "128k", medium |-> "192k", high |-> "320k",
              lossless |-> "320k"],
     ogg |-> [low |-> "3", medium |-> "6", high |-> "9", lossless |-> "10"],
     m4a |-> [low |-> "128k", medium |-> "192k", high |-> "256k",
              lossless |-> "320k"]]

RateFlag(fmt) == IF fmt = "ogg" THEN "-q:a" ELSE "-b:a"

RateFlags == {"-b:a", "-q:a"}

CodecFlags == {"-acodec", "-c:a", "-compression_level"}

\* the arguments between the metadata and the output path
FormatPart(cmd, p, tags) ==
    LET af == IF p.trim_silence \/ p.normalize THEN 2 ELSE 0
        m == Cardinality(TagsSet(tags))
    IN SubSeq(cmd, 8 + af + 2 * m + 1, Len(cmd) - 1)

\* C18: for mp3, ogg and m4a the command holds exactly one rate pair, that
\* of the table for (format, quality) or the medium one for an unknown
\* quality; for wav and flac the format arguments are fixed; the command
\* holds no rate or codec argument of another format.
C18_OneRatePair ==
    fn_out # NoCommand =>
        LET cmd == fn_out
            p == fn_in.p
            fa == FormatPart(cmd, p, fn_in.tags)
            qual == IF p.quality \in Qualities THEN p.quality ELSE "medium"
            rates == {k \in 1..Len(cmd) : cmd[k] \in RateFlags}
            codecs == {cmd[k] : k \in 1..Len(cmd)} \cap CodecFlags
        IN
        /\ p.format \in {"mp3", "ogg", "m4a"} =>
              /\ Cardinality(rates) = 1
              /\ \A k \in rates :
                    /\ cmd[k] = RateFlag(p.format)
                    /\ cmd[k + 1] = RateTable[p.format][qual]
              /\ codecs = (IF p.format = "m4a" THEN {"-c:a"} ELSE {})
              /\ p.format = "m4a" => fa[1] = "-c:a" /\ fa[2] = "aac"
              /\ Len(fa) = (IF p.format = "m4a" THEN 4 ELSE 2)
        /\ p.format = "wav" => fa = <<"-acodec", "pcm_s16le">> /\ rates = {}
        /\ p.format = "flac" =>
              /\ fa = <<"-acodec", "flac", "-compression_level", "5">>
              /\ rates = {}

C18_Witness ==
    /\ fn_out # NoCommand
    /\ fn_in.p.format = "ogg" /\ fn_in.p.quality = "best"
    /\ fn_out[Len(fn_out) - 2] = "-q:a" /\ fn_out[Len(fn_out) - 1] = "6"

Chars(t) == {t[k] : k \in 1..Len(t)}

\* C19: the resolved base name holds none of \ / * ? : " < > |, wherever
\* the characters of the name come from.
C19_NoIllegalChar ==
    fn_out # NoName => Chars(fn_out) \cap IllegalChars = {}

C19_Witness ==
    /\ fn_out # NoName
    /\ fn_in.pattern = TokArtist \o TokFilename
    /\ Chars(fn_in.tags.artist) \cap IllegalChars # {}
    /\ Chars(fn_in.stem) \cap IllegalChars # {}
    /\ Cardinality(Occurrences(fn_out, <<"_">>)) = 2

\* C20: the resolved base name holds no uppercase character.
C20_Lowercase ==
    fn_out # NoName => Chars(fn_out) \cap Chars(UpperCase) = {}

\* the items the loop of the run has taken from the queue, in order: with
\* total = 0 every item taken fails at line 802, otherwise each is given to
\* the engine
Taken == IF total = 0 THEN skipped ELSE Inputs(calls)

\* C21: whatever the foreground adds to or clears from the queue while a
\* batch runs, the finished run has taken exactly the items the queue held
\* when the run began, in order, and the count of its completion summary is
\* the number of items it has taken.
C21_RunUndisturbed ==
    (Running /\ bpc = "done") =>
        /\ Taken = run_queue
        /\ CompleteEvent(total).count = Len(Taken)

\* C22: after a save or a delete of a preset, the custom presets in memory
\* are the presets that presets.json holds, and when the write failed
\* ("Save Failed") both are what they were before the operation.
C22_MemoryMatchesStore ==
    preset_event.op \in {"save", "delete"} =>
        /\ custom_presets = LoadPresets(preset_store)
        /\ preset_event.report = "Save Failed" =>
               /\ custom_presets = preset_event.custom
               /\ preset_store = preset_event.store

\* C8: every item of a run is named and encoded with the output directory
\* and the profile that were current when the run began.
C8_ProfileSnapshot ==
    \A k \in 1..Len(calls) :
        /\ calls[k].profile = run_profile
        /\ calls[k].dir = run_outdir
        /\ calls[k].ext = run_profile.format

\* C9: within a run the progress values emitted never decrease and lie in
\* 0..100, whatever the foreground does to the queue meanwhile.
C9_ProgressMonotone ==
    \A k \in 1..Len(progress) :
        /\ progress[k] \in 0..100
        /\ k > 1 => progress[k - 1] <= progress[k]

\* C10: the progress value reported before item i of n is
\* floor((i-1)*100/n).
C10_ProgressIsFloor ==
    fn_out # -1 => fn_out = PctExact(fn_in[1], fn_in[2])

====
